---- MODULE Spec2Model ----
(***************************************************************************)
(* jofsarpur: main() loads the completion log, builds download_queue from  *)
(* the fetched metadata, wraps every item in a DownloadWorker thread and   *)
(* admits the workers from a polling loop; every worker spawns one ffmpeg  *)
(* process, records a successful exit in the shared download_log and sets  *)
(* its own state.  main() dumps download_log when the loop has exited.     *)
(*                                                                         *)
(* The scheduler (main thread) and the worker threads are interleaved at   *)
(* the granularity of their reads and writes of shared objects: a worker's *)
(* state attribute, the download_log dict and the lists it holds.          *)
(***************************************************************************)
EXTENDS Integers, Sequences, FiniteSets, TLC

\* ---------------------------------------------------------------- bounds
MaxTasks == 2       \* episodes returned by the metadata source, all series
MaxThreads == 2     \* largest --threads value explored

\* --------------------------------------------------------- enumerations
WAITING == "WAITING"
DOWNLOADING == "DOWNLOADING"
DONE == "DONE"
ERROR == "ERROR"
DownloadState == {WAITING, DOWNLOADING, DONE, ERROR}

\* Keys episode_item always receives in main() (the update of lines 243-258).
BaseKeys == {"url", "title", "episode_title", "sid", "pid", "airdate",
             "filenames", "download_directory"}

\* Shapes of an episode title, by the regular expression that matches it.
TitleKinds == {"N af M", "N. kafli", "other"}

\* Keys the title's regular expressions add to episode_item.
EpisodeKeys(title) ==
    IF title = "N af M" THEN {"episode_number", "episode_count"}
    ELSE IF title = "N. kafli" THEN {"episode_number"}
    ELSE {}

\* A filenames template is modelled by the set of fields it references.
Templates == {{"title", "pid"}, {"title", "episode_number"}}

\* The keys of the series sections: configurations have one or two.
SIDs == {1, 2}
PIDs == 1..MaxTasks

Max(a, b) == IF a > b THEN a ELSE b
Min(a, b) == IF a < b THEN a ELSE b

\* The elements of a sequence.
Range(s) == {s[i] : i \in DOMAIN s}

\* ------------------------------------------------------------ variables
VARIABLES
    configuration,     \* the series sections of the TOML file, in order
    metadata,          \* what get_series_data returns for each sid
    thread_count,      \* --threads
    disk,              \* content of download_log_filename
    run,               \* 1: the first invocation; 2: the invocation after it,
                       \* which is followed up to its queue
    pc,                \* position of main()
    download_log,      \* dict: sid -> reference of a list object
    lists,             \* heap: list reference -> the pids it holds
    loaded,            \* (sid, pid) pairs download_log held after loading
    series_index,      \* series fetched so far
    download_queue,    \* items appended by main()
    state,             \* worker -> DownloadWorker.state
    wpc,               \* worker -> position of the worker in run()
    started,           \* worker -> times its thread was launched
    spawned,           \* worker -> processes it has spawned
    returncode,        \* worker -> exit status of its process, or None
    listref,           \* worker -> list object it fetched from download_log
    done_threads, running_threads, waiting_threads, error_threads,
    filter_pos,        \* <<filter, index>> of the next state read of a pass
    start_i,           \* loop variable of the admission loop
    start_n,           \* its bound, min(len(waiting), thread_count - len(running))
    previous,          \* outcome of the previous invocation
    source,            \* whether the metadata source ever answers with "data"
    response,          \* json_data of query_graphql, once requests.get returned
    dumps              \* calls of json.dump this invocation has completed

vars == <<configuration, metadata, thread_count, disk, run, pc, download_log,
          lists, loaded, series_index, download_queue, state, wpc, started,
          spawned, returncode, listref, done_threads, running_threads,
          waiting_threads, error_threads, filter_pos, start_i, start_n,
          previous, source, response, dumps>>

inputVars == <<configuration, metadata, thread_count, source>>
workerVars == <<state, wpc, started, spawned, returncode, listref>>
sampleVars == <<done_threads, running_threads, waiting_threads, error_threads>>
loopVars == <<filter_pos, start_i, start_n>>
logVars == <<download_log, lists>>

Workers == DOMAIN state

\* ----------------------------------------------------------- the log file
\* The file download_log_filename.  kind "missing": no such file; kind
\* "truncated": opened for writing, nothing written yet; kind "document": a
\* JSON object whose members map a series id to the array of its episode ids.
NoDocument == <<>>
MissingFile == [kind |-> "missing", doc |-> NoDocument]
TruncatedFile == [kind |-> "truncated", doc |-> NoDocument]
DocumentFile(d) == [kind |-> "document", doc |-> d]

\* json.load: every array of the document becomes a fresh list object.
LoadRef(sid) == <<0, sid>>
JsonLoadLog(doc) == [sid \in DOMAIN doc |-> LoadRef(sid)]
JsonLoadLists(doc) == [r \in {LoadRef(sid) : sid \in DOMAIN doc} |-> doc[r[2]]]

\* json.dump: every key of the dict with the content of the list it holds.
JsonDump(log, heap) == [sid \in DOMAIN log |-> heap[log[sid]]]

\* The (sid, pid) pairs a dict and its lists record.
Entries(log, heap) ==
    UNION {{<<sid, p>> : p \in Range(heap[log[sid]])} : sid \in DOMAIN log}

\* The pairs a document records.
DocEntries(doc) == UNION {{<<sid, p>> : p \in Range(doc[sid])} : sid \in DOMAIN doc}

\* ------------------------------------------------------------- the inputs
\* configuration[i] is the filenames template of the i-th series section;
\* the section's key, its sid, is i.
Configurations == UNION {[1..k -> Templates] : k \in SIDs}

\* Configurations whose sections all use one template.
UniformConfigurations ==
    {c \in Configurations : \A i, j \in DOMAIN c : c[i] = c[j]}

Episodes == [id : PIDs, title : TitleKinds]

SeqsUpTo(S, n) == UNION {[1..k -> S] : k \in 0..n}

RECURSIVE SumLen(_, _)
SumLen(f, n) == IF n = 0 THEN 0 ELSE Len(f[n]) + SumLen(f, n - 1)

\* What the metadata source may return for the series of a configuration:
\* per series any list of episodes, MaxTasks episodes in all at most.
Metadatas(config) ==
    {m \in [DOMAIN config -> SeqsUpTo(Episodes, MaxTasks)] :
        SumLen(m, Len(config)) <= MaxTasks}

\* A catalogue in which the title of an episode follows from its id, and
\* the episode lists that are its first n episodes, one at least.
CatalogueTitles == <<"N af M", "other", "N. kafli">>
CatalogueEpisode(id) ==
    [id |-> id, title |-> CatalogueTitles[((id - 1) % Len(CatalogueTitles)) + 1]]
CatalogueLists == {[i \in 1..n |-> CatalogueEpisode(i)] : n \in 1..MaxTasks}
CatalogueMetadatas(config) ==
    {m \in [DOMAIN config -> CatalogueLists] : SumLen(m, Len(config)) <= MaxTasks}

\* Log files a run may find: none, or a document of earlier downloads.
InitialFiles ==
    {MissingFile} \cup
    {DocumentFile(d) : d \in UNION {[S -> SeqsUpTo(PIDs, 1)] : S \in SUBSET SIDs}}

\* The log file after the first episode of the first series was downloaded.
FirstEpisodeFile == DocumentFile(1 :> <<1>>)

\* The metadata source: one that answers with a "data" member sooner or
\* later, and one that never does.
MetadataSources == {"up", "down"}

\* json_data of query_graphql: no request made, a document with the key
\* "data", or a document without it.
NoResponse == "none"
Responses == {"data", "errors"}

\* What requests.get(...).json() may return from a source.
ResponsesOf(src) == IF src = "down" THEN {"errors"} ELSE Responses

\* A test that takes every document.
ResponseAlwaysAccepted(r) == TRUE

\* Line 31: "data" in json_data.keys().
ResponseHasData(r) == r = "data"

\* ------------------------------------------------------- building the queue
\* The test of line 234 without its second operand.
AlreadyDownloadedAnyEpisode(log, heap, sid, pid) == sid \in DOMAIN log

\* The test of line 234: the pair is already in the log.
AlreadyDownloaded(log, heap, sid, pid) ==
    sid \in DOMAIN log /\ pid \in Range(heap[log[sid]])

\* episode_item as lines 210-258 fill it.
EpisodeItem(sid, template, episode) ==
    [sid |-> sid, pid |-> episode.id,
     keys |-> BaseKeys \cup EpisodeKeys(episode.title),
     filenames |-> template]

\* The loop over series["episodes"], lines 209-262: the queue after the
\* episodes from position i on have been handled.
RECURSIVE QueueEpisodes(_, _, _, _, _, _, _)
QueueEpisodes(queue, sid, template, episodes, i, log, heap) ==
    IF i > Len(episodes) THEN queue
    ELSE IF AlreadyDownloaded(log, heap, sid, episodes[i].id)
         THEN QueueEpisodes(queue, sid, template, episodes, i + 1, log, heap)
         ELSE QueueEpisodes(Append(queue, EpisodeItem(sid, template, episodes[i])),
                            sid, template, episodes, i + 1, log, heap)

\* ------------------------------------------------------------- the workers
\* str.format(**download_configuration) raises KeyError on a field the
\* configuration does not hold.
FormatRaisesKeyError(item) == ~(item.filenames \subseteq item.keys)

\* A constructor that loses the KeyError.
InitialStateIgnoringKeyError(item) == WAITING

\* DownloadWorker.__init__: the state the worker is constructed in.
InitialState(item) == IF FormatRaisesKeyError(item) THEN ERROR ELSE WAITING

NoRef == <<>>
NoReturncode == <<>>
ExitStatuses == {0, 1}

NoPrevious == [valid |-> FALSE, loaded |-> {}, done |-> {}, error |-> {}]

Key(w) == <<download_queue[w].sid, download_queue[w].pid>>

\* ------------------------------------------------------------------ Init
\* A fresh invocation: nothing loaded, nothing fetched, no workers.
FreshRun ==
    /\ pc = "load"
    /\ download_log = <<>>
    /\ lists = <<>>
    /\ loaded = {}
    /\ series_index = 0
    /\ download_queue = <<>>
    /\ state = <<>>
    /\ wpc = <<>>
    /\ started = <<>>
    /\ spawned = <<>>
    /\ returncode = <<>>
    /\ listref = <<>>
    /\ done_threads = <<>>
    /\ running_threads = <<>>
    /\ waiting_threads = <<>>
    /\ error_threads = <<>>
    /\ filter_pos = <<1, 1>>
    /\ start_i = 0
    /\ start_n = 0
    /\ response = NoResponse
    /\ dumps = 0

\* The program is invoked on a configuration of one template, a catalogue
\* prefix per series, and no log file or the log of one earlier download;
\* --threads takes any integer, zero and negative ones included.
Init ==
    /\ configuration \in UniformConfigurations
    /\ metadata \in CatalogueMetadatas(configuration)
    /\ thread_count \in -1..MaxThreads
    /\ source \in MetadataSources
    /\ disk \in {MissingFile, FirstEpisodeFile}
    /\ run = 1
    /\ previous = NoPrevious
    /\ FreshRun

\* The program is invoked on any configuration, any episode lists and any
\* log file within the bounds.
QueueInit ==
    /\ configuration \in Configurations
    /\ metadata \in Metadatas(configuration)
    /\ thread_count \in 1..MaxThreads
    /\ source = "up"
    /\ disk \in InitialFiles
    /\ run = 1
    /\ previous = NoPrevious
    /\ FreshRun

\* ----------------------------------------------------------- main(): setup
\* Lines 183-186: json.load of the log file; a missing file is an empty log.
\* json.load raises on a file that holds no document, and nothing catches it.
LoadLog ==
    /\ pc = "load"
    /\ IF disk.kind = "truncated"
       THEN /\ pc' = "crashed"
            /\ UNCHANGED <<download_log, lists, loaded>>
       ELSE /\ pc' = "fetch"
            /\ download_log' = JsonLoadLog(disk.doc)
            /\ lists' = JsonLoadLists(disk.doc)
            /\ loaded' = DocEntries(disk.doc)
    /\ UNCHANGED <<inputVars, disk, run, series_index, download_queue, workerVars,
                   sampleVars, loopVars, previous, response, dumps>>

\* Lines 23-30, called from get_series_data in line 204: requests.get
\* returns a document.
QueryRequest ==
    /\ pc = "fetch"
    /\ series_index < Len(configuration)
    /\ response' \in ResponsesOf(source)
    /\ pc' = "queried"
    /\ UNCHANGED <<inputVars, disk, run, logVars, loaded, series_index,
                   download_queue, workerVars, sampleVars, loopVars, previous,
                   dumps>>

\* Lines 31-33: a document without "data" is dropped and, a second later,
\* the request is made again.
QueryRetry ==
    /\ pc = "queried"
    /\ ~ResponseHasData(response)
    /\ response' = NoResponse
    /\ pc' = "fetch"
    /\ UNCHANGED <<inputVars, disk, run, logVars, loaded, series_index,
                   download_queue, workerVars, sampleVars, loopVars, previous,
                   dumps>>

\* Lines 201-263, one iteration of the loop over the series sections, from
\* the return of query_graphql in line 32 on.  The get_file_data queries of
\* line 241 are part of it: they pass through the same loop of
\* query_graphql and are followed here once they have returned.
FetchSeries ==
    /\ pc = "queried"
    /\ ResponseHasData(response)
    /\ LET sid == series_index + 1
       IN download_queue' = QueueEpisodes(download_queue, sid, configuration[sid],
                                          metadata[sid], 1, download_log, lists)
    /\ series_index' = series_index + 1
    /\ response' = NoResponse
    /\ pc' = "fetch"
    /\ UNCHANGED <<inputVars, disk, run, logVars, loaded, workerVars,
                   sampleVars, loopVars, previous, dumps>>

\* Lines 269-272: one DownloadWorker per queued item.
ConstructWorkers ==
    /\ pc = "fetch"
    /\ series_index = Len(configuration)
    /\ run = 1
    /\ state' = [w \in DOMAIN download_queue |-> InitialState(download_queue[w])]
    /\ wpc' = [w \in DOMAIN download_queue |-> "new"]
    /\ started' = [w \in DOMAIN download_queue |-> 0]
    /\ spawned' = [w \in DOMAIN download_queue |-> 0]
    /\ returncode' = [w \in DOMAIN download_queue |-> NoReturncode]
    /\ listref' = [w \in DOMAIN download_queue |-> NoRef]
    /\ pc' = "filter"
    /\ UNCHANGED <<inputVars, disk, run, logVars, loaded, series_index,
                   download_queue, sampleVars, loopVars, previous, response,
                   dumps>>

\* ------------------------------------------------- main(): the polling loop
\* The four filters of lines 274-297, in the order main() evaluates them.
FilterStates == <<DONE, DOWNLOADING, WAITING, ERROR>>

\* The sampled list with worker w added when its state is the filter's.
Sampled(list, f, w) == IF state[w] = FilterStates[f] THEN Append(list, w) ELSE list

\* The position after reading worker i in filter f.
NextPos(f, i) == IF i < Len(download_queue) THEN <<f, i + 1>> ELSE <<f + 1, 1>>

\* One evaluation of the lambda of a filter: one read of one worker's state.
FilterStep ==
    /\ pc = "filter"
    /\ Len(download_queue) > 0
    /\ LET f == filter_pos[1]
           i == filter_pos[2]
       IN /\ done_threads' = IF f = 1 THEN Sampled(done_threads, f, i) ELSE done_threads
          /\ running_threads' =
                IF f = 2 THEN Sampled(running_threads, f, i) ELSE running_threads
          /\ waiting_threads' =
                IF f = 3 THEN Sampled(waiting_threads, f, i) ELSE waiting_threads
          /\ error_threads' = IF f = 4 THEN Sampled(error_threads, f, i) ELSE error_threads
          /\ filter_pos' = NextPos(f, i)
          /\ pc' = IF NextPos(f, i)[1] > Len(FilterStates) THEN "check" ELSE "filter"
    /\ UNCHANGED <<inputVars, disk, run, logVars, loaded, series_index,
                   download_queue, workerVars, start_i, start_n, previous,
                   response, dumps>>

\* The filters over an empty download_workers.
FilterNothing ==
    /\ pc = "filter"
    /\ Len(download_queue) = 0
    /\ pc' = "check"
    /\ UNCHANGED <<inputVars, disk, run, logVars, loaded, series_index,
                   download_queue, workerVars, sampleVars, loopVars, previous,
                   response, dumps>>

\* Lines 299-306: the two exits of the loop.
LoopExits ==
    \/ Len(done_threads) = Len(download_queue)
    \/ /\ Len(waiting_threads) + Len(running_threads) = 0
       /\ Len(error_threads) > 0

\* A bound that leaves thread_count out.
StartCountOfWaiting == Len(waiting_threads)

\* The bound of range() in line 310; range() of a negative bound is empty.
StartCount == Max(0, Min(Len(waiting_threads), thread_count - Len(running_threads)))

\* The locals of the loop once main() has left it: they are not read again.
LoopLocalsDropped ==
    /\ done_threads' = <<>>
    /\ running_threads' = <<>>
    /\ waiting_threads' = <<>>
    /\ error_threads' = <<>>
    /\ filter_pos' = <<1, 1>>
    /\ start_i' = 0
    /\ start_n' = 0

\* Lines 299-310: leave the loop or enter the admission loop.
CheckExit ==
    /\ pc = "check"
    /\ IF LoopExits
       THEN /\ pc' = "open"
            /\ LoopLocalsDropped
       ELSE /\ pc' = "start"
            /\ start_i' = 0
            /\ start_n' = StartCount
            /\ UNCHANGED <<sampleVars, filter_pos>>
    /\ UNCHANGED <<inputVars, disk, run, logVars, loaded, series_index,
                   download_queue, workerVars, previous, response, dumps>>

\* A start() that launches the thread again.
StartNeverRaises(w) == FALSE

\* Thread.start(): launches the thread once; a second call raises
\* RuntimeError, which main() does not catch.
StartRaises(w) == started[w] > 0

\* Line 312: waiting_threads[i].start().
StartWorker ==
    /\ pc = "start"
    /\ start_i < start_n
    /\ LET w == waiting_threads[start_i + 1]
       IN IF StartRaises(w)
          THEN /\ pc' = "crashed"
               /\ LoopLocalsDropped
               /\ UNCHANGED <<started, wpc>>
          ELSE /\ started' = [started EXCEPT ![w] = @ + 1]
               /\ wpc' = [wpc EXCEPT ![w] = "run"]
               /\ start_i' = start_i + 1
               /\ pc' = pc
               /\ UNCHANGED <<sampleVars, filter_pos, start_n>>
    /\ UNCHANGED <<inputVars, disk, run, logVars, loaded, series_index,
                   download_queue, state, spawned, returncode, listref, previous,
                   response, dumps>>

\* Line 314: the pass is over; the next one samples afresh.
Sleep ==
    /\ pc = "start"
    /\ start_i = start_n
    /\ pc' = "filter"
    /\ filter_pos' = <<1, 1>>
    /\ done_threads' = <<>>
    /\ running_threads' = <<>>
    /\ waiting_threads' = <<>>
    /\ error_threads' = <<>>
    /\ start_i' = 0
    /\ start_n' = 0
    /\ UNCHANGED <<inputVars, disk, run, logVars, loaded, series_index,
                   download_queue, workerVars, previous, response, dumps>>

\* Line 315: open(download_log_filename, "w") truncates the file.
OpenLog ==
    /\ pc = "open"
    /\ disk' = TruncatedFile
    /\ pc' = "dump"
    /\ UNCHANGED <<inputVars, run, logVars, loaded, series_index, download_queue,
                   workerVars, sampleVars, loopVars, previous, response, dumps>>

\* Line 315: json.dump writes the log into it.
DumpLog ==
    /\ pc = "dump"
    /\ disk' = DocumentFile(JsonDump(download_log, lists))
    /\ dumps' = dumps + 1
    /\ pc' = "done"
    /\ UNCHANGED <<inputVars, run, logVars, loaded, series_index, download_queue,
                   workerVars, sampleVars, loopVars, previous, response>>

\* ------------------------------------------------- DownloadWorker.run()
mainVars == <<inputVars, disk, run, pc, loaded, series_index, download_queue,
              sampleVars, loopVars, previous, response, dumps>>

\* The threads of a process take steps until the process is killed.
Alive == pc # "killed"

\* A run() without the assignment of line 118.
RunBeginWithoutDownloading(w) ==
    /\ Alive
    /\ wpc[w] = "run"
    /\ wpc' = [wpc EXCEPT ![w] = IF state[w] # WAITING THEN "end" ELSE "poll"]
    /\ spawned' = [spawned EXCEPT ![w] = IF state[w] # WAITING THEN @ ELSE @ + 1]
    /\ UNCHANGED <<mainVars, logVars, state, started, returncode, listref>>

\* Lines 116-124: a worker that is not WAITING returns; the others become
\* DOWNLOADING and start their ffmpeg process with Popen.
RunBegin(w) ==
    /\ Alive
    /\ wpc[w] = "run"
    /\ IF state[w] # WAITING
       THEN /\ wpc' = [wpc EXCEPT ![w] = "end"]
            /\ UNCHANGED <<state, spawned>>
       ELSE /\ wpc' = [wpc EXCEPT ![w] = "poll"]
            /\ state' = [state EXCEPT ![w] = DOWNLOADING]
            /\ spawned' = [spawned EXCEPT ![w] = @ + 1]
    /\ UNCHANGED <<mainVars, logVars, started, returncode, listref>>

\* Lines 126-134 and 142-147: the process has exited with status rc and
\* poll() reports it.  Status 0 goes on to the test
\* "sid not in download_log.keys()"; any other status is an ERROR.
PollExited(w, rc) ==
    /\ Alive
    /\ wpc[w] = "poll"
    /\ returncode' = [returncode EXCEPT ![w] = <<rc>>]
    /\ IF rc = 0
       THEN /\ wpc' = [wpc EXCEPT ![w] =
                         IF download_queue[w].sid \notin DOMAIN download_log
                         THEN "newlist" ELSE "getlist"]
            /\ state' = state
       ELSE /\ wpc' = [wpc EXCEPT ![w] = "end"]
            /\ state' = [state EXCEPT ![w] = ERROR]
    /\ UNCHANGED <<mainVars, logVars, started, spawned, listref>>

\* Line 135: download_log[sid] = [], a new list object under the key.
NewList(w) ==
    /\ Alive
    /\ wpc[w] = "newlist"
    /\ LET sid == download_queue[w].sid
           ref == <<w, sid>>
       IN /\ download_log' = (sid :> ref) @@ download_log
          /\ lists' = (ref :> <<>>) @@ lists
    /\ wpc' = [wpc EXCEPT ![w] = "getlist"]
    /\ UNCHANGED <<mainVars, state, started, spawned, returncode, listref>>

\* Line 136: the subscription download_log[sid] yields the list object.
GetList(w) ==
    /\ Alive
    /\ wpc[w] = "getlist"
    /\ listref' = [listref EXCEPT ![w] = download_log[download_queue[w].sid]]
    /\ wpc' = [wpc EXCEPT ![w] = "append"]
    /\ UNCHANGED <<mainVars, logVars, state, started, spawned, returncode>>

\* Lines 136-138: append(pid) on that list object.
AppendPid(w) ==
    /\ Alive
    /\ wpc[w] = "append"
    /\ lists' = [lists EXCEPT ![listref[w]] = Append(@, download_queue[w].pid)]
    /\ listref' = [listref EXCEPT ![w] = NoRef]
    /\ wpc' = [wpc EXCEPT ![w] = "setdone"]
    /\ UNCHANGED <<mainVars, download_log, state, started, spawned, returncode>>

\* Line 148: self.state = DownloadState.DONE.
SetDone(w) ==
    /\ Alive
    /\ wpc[w] = "setdone"
    /\ state' = [state EXCEPT ![w] = DONE]
    /\ wpc' = [wpc EXCEPT ![w] = "end"]
    /\ UNCHANGED <<mainVars, logVars, started, spawned, returncode, listref>>

\* ------------------------------------------------------ the next invocation
\* The process is over: main() has returned or raised, and every thread
\* that was started has returned.
ProcessOver ==
    /\ pc \in {"done", "crashed"}
    /\ \A w \in Workers : started[w] > 0 => wpc[w] = "end"

KeysIn(s) == {Key(w) : w \in {v \in Workers : state[v] = s}}

\* The exit status of the process.  main() ends with the json.dump of line
\* 315 after either break and calls no exit of its own, so the command of
\* lines 153-173 and 318-319 exits with 0 whenever main() returns; an
\* exception nothing catches gives 1.
MainExitStatus == IF pc = "done" THEN 0 ELSE 1

\* The process is killed or the machine goes down, at any point of main()
\* and of the workers: every thread stops where it is, and what the file
\* system holds is what is left of the run.
Kill ==
    /\ run = 1
    /\ Alive
    /\ ~ProcessOver
    /\ pc' = "killed"
    /\ LoopLocalsDropped
    /\ response' = NoResponse
    /\ listref' = [w \in Workers |-> NoRef]
    /\ UNCHANGED <<inputVars, disk, run, logVars, loaded, series_index,
                   download_queue, state, wpc, started, spawned, returncode,
                   previous, dumps>>

\* The program is invoked again, on the same configuration and log file.
NextRun ==
    /\ ProcessOver \/ ~Alive
    /\ run = 1
    /\ run' = run + 1
    /\ previous' = [valid |-> pc = "done", loaded |-> loaded,
                    done |-> KeysIn(DONE), error |-> KeysIn(ERROR)]
    /\ pc' = "load"
    /\ download_log' = <<>>
    /\ lists' = <<>>
    /\ loaded' = {}
    /\ series_index' = 0
    /\ download_queue' = <<>>
    /\ state' = <<>>
    /\ wpc' = <<>>
    /\ started' = <<>>
    /\ spawned' = <<>>
    /\ returncode' = <<>>
    /\ listref' = <<>>
    /\ done_threads' = <<>>
    /\ running_threads' = <<>>
    /\ waiting_threads' = <<>>
    /\ error_threads' = <<>>
    /\ filter_pos' = <<1, 1>>
    /\ start_i' = 0
    /\ start_n' = 0
    /\ response' = NoResponse
    /\ dumps' = 0
    /\ UNCHANGED <<inputVars, disk>>

Next ==
    \/ LoadLog
    \/ QueryRequest
    \/ QueryRetry
    \/ FetchSeries
    \/ ConstructWorkers
    \/ FilterStep
    \/ FilterNothing
    \/ CheckExit
    \/ StartWorker
    \/ Sleep
    \/ OpenLog
    \/ DumpLog
    \/ \E w \in Workers : RunBegin(w)
    \/ \E w \in Workers, rc \in ExitStatuses : PollExited(w, rc)
    \/ \E w \in Workers : NewList(w)
    \/ \E w \in Workers : GetList(w)
    \/ \E w \in Workers : AppendPid(w)
    \/ \E w \in Workers : SetDone(w)
    \/ Kill
    \/ NextRun

Spec == Init /\ [][Next]_vars

\* The setup of main() alone, on arbitrary inputs.
QueueNext ==
    \/ LoadLog
    \/ QueryRequest
    \/ QueryRetry
    \/ FetchSeries

QueueSpec == QueueInit /\ [][QueueNext]_vars

\* ------------------------------------------------------------ the claims
WorkersIn(s) == {w \in Workers : state[w] = s}

\* C1: with thread_count >= 1, in every reachable state the number of
\* workers whose state is DOWNLOADING is at most thread_count.
C1_RunningWithinThreadCount ==
    thread_count >= 1 => Cardinality(WorkersIn(DOWNLOADING)) <= thread_count

\* A pass the scheduler ends while a worker it started is still WAITING, with
\* more workers DOWNLOADING than thread_count afterwards.
C1_Exceeded ==
    /\ thread_count >= 1
    /\ Cardinality(WorkersIn(DOWNLOADING)) = thread_count + 1
    /\ \A w \in Workers : started[w] <= 1

\* C2: once a (sid, pid) pair is in download_log it stays, whatever the
\* interleaving of the workers: no step of a run removes an entry.
C2_EntriesNeverRemoved ==
    [][run' = run =>
          Entries(download_log, lists) \subseteq Entries(download_log', lists')]_vars

\* The positions of the lists download_log holds: one per recorded pid.
LogPositions(log, heap) ==
    UNION {{<<sid, i>> : i \in DOMAIN heap[log[sid]]} : sid \in DOMAIN log}

\* Worker w has executed the append of lines 136-138.
Appended(w) == wpc[w] \in {"setdone", "end"} /\ returncode[w] = <<0>>

\* C3: a worker whose process exited with status 0 adds exactly one entry,
\* its own (sid, pid), and becomes DONE; a worker whose process exited with
\* another status adds nothing and becomes ERROR.
C3_ExitDecidesLogAndState ==
    /\ \A w \in Workers : state[w] = DONE =>
            returncode[w] = <<0>> /\ Key(w) \in Entries(download_log, lists)
    /\ \A w \in Workers : returncode[w] \notin {NoReturncode, <<0>>} =>
            state[w] = ERROR /\ ~Appended(w)
    /\ pc \notin {"load", "fetch"} =>
            Cardinality(LogPositions(download_log, lists)) =
                Cardinality(loaded) + Cardinality({w \in Workers : Appended(w)})

\* The queue of this invocation is complete.
QueueBuilt == pc # "load" /\ series_index = Len(configuration)

QueueKeys == {<<download_queue[i].sid, download_queue[i].pid>> : i \in DOMAIN download_queue}

\* The (sid, pid) pairs of the episodes the metadata source returned.
Fetched ==
    UNION {{<<sid, metadata[sid][i].id>> : i \in DOMAIN metadata[sid]} :
             sid \in DOMAIN metadata}

\* C4: a fetched episode whose (sid, pid) is in the log loaded at start has
\* no item in download_queue, and every other fetched episode has one.
C4_QueueSkipsLoaded ==
    QueueBuilt => \A k \in Fetched : k \in QueueKeys <=> k \notin loaded

\* A built queue with an episode skipped and an episode queued.
C4_SkippedAndQueued ==
    /\ QueueBuilt
    /\ Fetched \cap loaded # {}
    /\ Fetched \ loaded # {}
    /\ download_queue # <<>>

\* main() has left the polling loop by one of its two breaks.
LoopLeft == pc \in {"open", "dump", "done"}

\* C5: the loop exits only when no worker is WAITING or DOWNLOADING; a task
\* in ERROR does not make it exit while another task is WAITING or
\* DOWNLOADING.
C5_ExitOnlyWhenAllTerminal ==
    LoopLeft => \A w \in Workers : state[w] \in {DONE, ERROR}

\* Workers whose process exited with a status other than 0.
FailedExits == {w \in Workers : returncode[w] \notin {NoReturncode, <<0>>}}

ConstructionErrors == {w \in Workers : FormatRaisesKeyError(download_queue[w])}

\* C6: when every process exits, the run ends with every task DONE or ERROR
\* and as many ERROR tasks as failed exits plus construction errors: a run
\* that has come to rest, no thread left to take a step, is in that state.
C6_RunEndsAllTerminal ==
    (ProcessOver /\ run = 1) =>
        /\ \A w \in Workers : state[w] \in {DONE, ERROR}
        /\ Cardinality(WorkersIn(ERROR)) =
              Cardinality(FailedExits) + Cardinality(ConstructionErrors)

\* C7: the run after a run that returned and dumped its log loads the first
\* run's initial log plus the keys of its DONE tasks; its queue holds none of
\* the DONE tasks and every ERROR task.
C7_ResumptionSkipsDone ==
    (previous.valid /\ pc = "fetch") =>
        /\ loaded = previous.loaded \cup previous.done
        /\ QueueBuilt => /\ QueueKeys \cap previous.done = {}
                         /\ previous.error \subseteq QueueKeys

\* C8: a worker is started only when every earlier worker has been started
\* or is in ERROR, and with thread_count = 1 a worker is started only when
\* the earlier workers have finished.
C8_FifoSequential ==
    \A w \in Workers : started[w] > 0 =>
        \A v \in 1..(w - 1) :
            /\ started[v] > 0 \/ state[v] = ERROR
            /\ thread_count = 1 => state[v] \in {DONE, ERROR}

\* The admission order alone: no worker is started before an earlier one
\* that was constructed WAITING.
FifoAdmission ==
    \A w \in Workers : started[w] > 0 =>
        \A v \in 1..(w - 1) : started[v] > 0 \/ state[v] = ERROR

\* C9: a worker's thread is started at most once and spawns at most one
\* process, and a DONE task has spawned exactly one.
C9_OneProcessPerTask ==
    \A w \in Workers :
        /\ started[w] <= 1
        /\ spawned[w] <= 1
        /\ state[w] = DONE => spawned[w] = 1

\* main() called start() on a started thread, and a task is DONE.
C9_SecondStartRaised ==
    /\ pc = "crashed"
    /\ \E w \in Workers : state[w] = DONE /\ spawned[w] = 1

\* C10: a task whose template references a field its configuration lacks is
\* ERROR from construction on: never sampled as waiting or running, never
\* started, never DOWNLOADING, without a process and without a log entry.
C10_ConstructionErrorInert ==
    \A w \in ConstructionErrors :
        /\ state[w] = ERROR
        /\ wpc[w] = "new"
        /\ started[w] = 0
        /\ spawned[w] = 0
        /\ w \notin Range(waiting_threads) \cup Range(running_threads)
        /\ Key(w) \notin Entries(download_log, lists)

\* A run that returned with a construction error next to a finished task.
C10_ErrorBesideDone ==
    /\ pc = "done"
    /\ ConstructionErrors # {}
    /\ WorkersIn(DONE) # {}

\* The write of line 315 alone: json.dump is called at most once, a main()
\* that returned has called it once, and until the file is opened for
\* writing it holds what was loaded.
DumpedOnceAtEnd ==
    /\ dumps <= 1
    /\ pc = "done" => dumps = 1
    /\ (run = 1 /\ pc \notin {"load", "dump", "done", "killed"}) =>
            /\ dumps = 0
            /\ disk.kind # "truncated"
            /\ DocEntries(disk.doc) = loaded

\* C11: a run that terminates has written download_log to the file exactly
\* once, after the loop was left with every task DONE or ERROR, and in every
\* state before that write the file holds what it held at load time.
C11_FlushedOnceWhenAllTerminal ==
    /\ DumpedOnceAtEnd
    /\ pc \in {"dump", "done"} => \A w \in Workers : state[w] \in {DONE, ERROR}

\* C12: the outcome of a run tells whether a task ended in ERROR: a run that
\* returned with a task in ERROR has another exit status than a run that
\* returned with every task DONE.
C12_ExitReflectsErrors ==
    (run = 1 /\ pc = "done" /\ ProcessOver) =>
        (MainExitStatus = 0 <=> WorkersIn(ERROR) = {})

\* C13: the run after a run that crashed or was killed loads a log with the
\* key of every task that was DONE by then, and queues none of them again.
C13_CrashKeepsDone ==
    (run = 2 /\ ~previous.valid /\ pc # "load") =>
        /\ previous.done \subseteq loaded
        /\ QueueKeys \cap previous.done = {}

\* The changes of a worker's state the state machine has.
StateChanges ==
    {<<WAITING, DOWNLOADING>>, <<DOWNLOADING, DONE>>, <<DOWNLOADING, ERROR>>}

C15_NoDuplicateKeys ==
    \A i, j \in DOMAIN download_queue :
        (download_queue[i].sid = download_queue[j].sid
            /\ download_queue[i].pid = download_queue[j].pid) => i = j

\* C16: at every instant, a kill between the opening of the log file and the
\* end of the dump included, the file holds a complete document: what was
\* loaded or what the run dumps, never an empty or partial one.
C16_LogFileAlwaysComplete == disk.kind # "truncated"

\* C17: query_graphql returns only on a document that has "data" and asks
\* again on every other one; with a source that never sends such a document
\* the run stays in the fetch of its first series: nothing is queued, no
\* worker is built, the scheduler is never reached.
C17_FetchReturnsOnlyData ==
    /\ [][series_index' # series_index /\ run' = run => response = "data"]_vars
    /\ [][(pc = "queried" /\ response # "data" /\ pc' # "killed") =>
              (pc' = "fetch" /\ series_index' = series_index)]_vars
    /\ [](source = "down" =>
              /\ pc \in {"load", "fetch", "queried", "killed"}
              /\ series_index = 0
              /\ download_queue = <<>>
              /\ Workers = {})

\* The source that never sends "data" has answered a request.
C17_AnsweredWithoutData ==
    /\ source = "down"
    /\ pc = "queried"
    /\ response = "errors"

\* The order of lines 136-148 alone: a worker is DONE only when it has
\* executed its append.
DoneAfterAppend == \A w \in Workers : state[w] = DONE => Appended(w)

\* C18: a worker becomes DONE only after its (sid, pid) was appended to
\* download_log, so the log holds the key of every DONE task, and the
\* document main() has dumped holds it too: no completion comes after the
\* dump.
C18_DoneIsLogged ==
    /\ DoneAfterAppend
    /\ KeysIn(DONE) \subseteq Entries(download_log, lists)
    /\ (run = 1 /\ pc = "done") => KeysIn(DONE) \subseteq DocEntries(disk.doc)

\* What a pass has admitted when it leaves the loop of lines 309-312: the
\* workers start() was called on are min(len(waiting), thread_count -
\* len(running)) in number, none when that is negative, so that no sampled
\* waiting worker is left or the threads are used up.
PassAdmitted ==
    /\ start_i = StartCount
    /\ \/ start_i = Len(waiting_threads)
       \/ Len(running_threads) + start_i >= thread_count

\* The passes that reach the sleep of line 314.
AdmissionOfCompletedPass == [][(pc = "start" /\ pc' = "filter") => PassAdmitted]_vars

\* C19: every pass that does not take a break starts exactly
\* min(|waiting|, thread_count - |running|) workers and goes on to the
\* next pass: no sampled waiting worker is left unstarted while a thread is
\* free.
C19_WorkConservingAdmission ==
    [][(thread_count >= 1 /\ pc = "start" /\ pc' \notin {"start", "killed"}) =>
          (pc' = "filter" /\ PassAdmitted)]_vars

\* C20: with thread_count <= 0 and a task constructed WAITING, no pass
\* starts a worker and neither break is taken: every such task stays
\* WAITING, main() stays in the loop and the log is never dumped.
C20_NoThreadsNoTermination ==
    (run = 1 /\ thread_count <= 0 /\ Workers \ ConstructionErrors # {}) =>
        /\ pc \in {"filter", "check", "start", "killed"}
        /\ \A w \in Workers : started[w] = 0
        /\ \A w \in Workers \ ConstructionErrors : state[w] = WAITING
        /\ dumps = 0

\* A pass with thread_count <= 0 that sampled a waiting worker and entered
\* the admission loop with nothing to start.
C20_PassAdmitsNothing ==
    /\ thread_count <= 0
    /\ pc = "start"
    /\ Len(waiting_threads) > 0
    /\ start_n = 0

====
